---- MODULE Spec2Model ----
(***************************************************************************)
(* A model of swgb_save.py: class SaveGame (read, _find_player_entries,    *)
(* save) with the file system it reads and writes.  Buffers are byte       *)
(* sequences with the 0-based offsets of the source; a float is the        *)
(* IEEE-754 single the four bytes encode, kept as (sign, exponent,         *)
(* fraction); a name is the sequence of its character codes.               *)
(***************************************************************************)
EXTENDS Integers, Sequences, FiniteSets, TLC

\* ------------------------------------------------------------------ bounds
\* read() calls on one SaveGame object
MaxReads == 2
\* operations in one behaviour
MaxSteps == 4

\* --------------------------------------------------------- program constants
\* len(bytes.fromhex('16db00000021')); resource_start = pattern_pos + 6
PatternLen == 6
\* while pos < len(self.data) - 32
ScanTail == 32
\* search_start = max(0, pattern_pos - 512)
NameWindow == 512
\* min(name_start + 32, search_end)
NameMax == 32
\* if valid_chars >= 4 ... len(test_name) >= 4
MinRun == 4
\* zlib.MAX_WBITS
MAX_WBITS == 15

player_pattern == <<22, 219, 0, 0, 0, 33>>

\* ------------------------------------------------------------ byte helpers
Min2(a, b) == IF a <= b THEN a ELSE b
Max2(a, b) == IF a >= b THEN a ELSE b
MinOf(S) == CHOOSE x \in S : \A y \in S : x <= y

\* data[off]
At(d, off) == d[off + 1]
\* data[s:e], both ends clipped to the buffer as Python clips them
Slice(d, s, e) == SubSeq(d, Min2(s, Len(d)) + 1, Min2(e, Len(d)))
\* an insertion data[s:s] = val: nothing is replaced, later bytes move up
SliceInsert(d, s, e, val) ==
    LET s1 == Min2(s, Len(d))
    IN  SubSeq(d, 1, s1) \o val \o SubSeq(d, s1 + 1, Len(d))
\* bytearray slice assignment data[s:e] = val: the clipped range is replaced,
\* so a range that starts at or runs past the end makes the buffer longer
SliceAssign(d, s, e, val) ==
    LET s1 == Min2(s, Len(d))
        e1 == Max2(s1, Min2(e, Len(d)))
    IN  SubSeq(d, 1, s1) \o val \o SubSeq(d, e1 + 1, Len(d))

\* chr(b).isalnum() for b in 0..255
IsAlnum(b) ==
    \/ b \in 48..57 \/ b \in 65..90 \/ b \in 97..122
    \/ b \in {170, 178, 179, 181, 185, 186, 188, 189, 190}
    \/ b \in 192..214 \/ b \in 216..246 \/ b \in 248..255
\* chr(b).isspace() for b in 0..255
IsSpace(b) == b \in 9..13 \/ b \in 28..32 \/ b \in {133, 160}
\* str.isprintable() on a decoded ASCII string
IsPrintable(s) == \A k \in 1..Len(s) : s[k] \in 32..126
\* bytes.decode('ascii') succeeds
IsAscii(s) == \A k \in 1..Len(s) : s[k] < 128
\* str.strip()
Strip(s) ==
    LET keep == {k \in 1..Len(s) : ~IsSpace(s[k])}
    IN  IF keep = {} THEN <<>>
        ELSE SubSeq(s, MinOf(keep), CHOOSE x \in keep : \A y \in keep : y <= x)
\* all(c.isalnum() or c.isspace() for c in test_name)
AllNameChars(s) == \A k \in 1..Len(s) : IsAlnum(s[k]) \/ IsSpace(s[k])

\* ------------------------------------------------------------------ floats
\* struct.unpack('<f', b)[0] of exactly four bytes
Unpack(b) ==
    [sign |-> b[4] \div 128,
     exp  |-> (b[4] % 128) * 2 + b[3] \div 128,
     frac |-> (b[3] % 128) * 65536 + b[2] * 256 + b[1]]
\* struct.pack('<f', value) of a value a single represents exactly
Pack(v) ==
    <<v.frac % 256,
      (v.frac \div 256) % 256,
      (v.exp % 2) * 128 + v.frac \div 65536,
      v.sign * 128 + v.exp \div 2>>
IsNaN(v) == v.exp = 255 /\ v.frac # 0
IsZero(v) == v.exp = 0 /\ v.frac = 0
\* |v| <= 100000.0 for a finite nonzero v = (2^23 + frac) * 2^(exp - 150)
MagnitudeAtMost100000(v) ==
    \/ v.exp = 0
    \/ /\ v.exp < 150
       /\ \/ 150 - v.exp >= 8
          \/ 8388608 + v.frac <= 100000 * 2 ^ (150 - v.exp)
\* the range check with the upper bound left out of the range
InRangeExclusive(v) ==
    /\ ~IsNaN(v)
    /\ v.sign = 0 \/ IsZero(v)
    /\ v.exp # 255
    /\ \/ IsZero(v)
       \/ v.exp = 0
       \/ /\ v.exp < 150
          /\ \/ 150 - v.exp >= 8
             \/ 8388608 + v.frac < 100000 * 2 ^ (150 - v.exp)
\* 0.0 <= value <= 100000.0
InRange(v) ==
    /\ ~IsNaN(v)
    /\ v.sign = 0 \/ IsZero(v)
    /\ v.exp # 255
    /\ IsZero(v) \/ MagnitudeAtMost100000(v)

\* ------------------------------------------------------- signature scanner
\* self.data.find(player_pattern, pos): the lowest match at or after pos, or -1
MatchAt(d, p) == \A k \in 0..(PatternLen - 1) : At(d, p + k) = player_pattern[k + 1]
Find(d, pos) ==
    LET hits == {p \in pos..(Len(d) - PatternLen) : MatchAt(d, p)}
    IN  IF hits = {} THEN -1 ELSE MinOf(hits)
\* the loop condition of both scans
ScanContinues(d, pos) == pos < Len(d) - ScanTail
\* the next search starting at the match itself
pos_at_match(pattern_pos) == pattern_pos
\* pos = pattern_pos + 1, the last statement of both loop bodies
pos_after(pattern_pos) == pattern_pos + 1

\* -------------------------------------------------------- record validator
resource_start(pattern_pos) == pattern_pos + PatternLen
\* the four bytes of value i, shorter when the buffer ends first
ValueBytes(d, pattern_pos, i) ==
    Slice(d, resource_start(pattern_pos) + i * 4, resource_start(pattern_pos) + (i + 1) * 4)
\* value i unpacks (struct.error otherwise) and passes the range check
ValueOk(d, pattern_pos, i) ==
    /\ Len(ValueBytes(d, pattern_pos, i)) = 4
    /\ InRange(Unpack(ValueBytes(d, pattern_pos, i)))
\* valid_sequence and len(values) == 4: the loop breaks at the first failure
valid_sequence(d, pattern_pos) == \A i \in 0..3 : ValueOk(d, pattern_pos, i)
values(d, pattern_pos) == [k \in 1..4 |-> Unpack(ValueBytes(d, pattern_pos, k - 1))]
\* [values[1], values[0], values[2], values[3]]
reordered_values(vals) == <<vals[2], vals[1], vals[3], vals[4]>>

\* ------------------------------------------------------------ name resolver
search_start(pattern_pos) == Max2(0, pattern_pos - NameWindow)
\* data[i] == 0x09 and data[i+1] == 0x00
IsMarker(d, i) == At(d, i) = 9 /\ At(d, i + 1) = 0
\* the while loop of the marker method from name_end on: stops at a zero
\* byte or at lim = min(name_start + 32, search_end)
RECURSIVE MarkerNameEndFrom(_, _, _)
MarkerNameEndFrom(d, name_end, lim) ==
    IF name_end < lim /\ At(d, name_end) # 0
    THEN MarkerNameEndFrom(d, name_end + 1, lim) ELSE name_end
MarkerNameEnd(d, name_start, search_end) ==
    MarkerNameEndFrom(d, name_start, Min2(name_start + NameMax, search_end))
\* the while loop of the direct method from name_end on: stops at a zero
\* byte, at a byte that is neither alphanumeric nor space, or at lim
RECURSIVE DirectNameEndFrom(_, _, _)
DirectNameEndFrom(d, name_end, lim) ==
    IF /\ name_end < lim
       /\ At(d, name_end) # 0
       /\ IsAlnum(At(d, name_end)) \/ IsSpace(At(d, name_end))
    THEN DirectNameEndFrom(d, name_end + 1, lim) ELSE name_end
DirectNameEnd(d, i, search_end) ==
    DirectNameEndFrom(d, i, Min2(i + NameMax, search_end))
\* the name the marker method of _find_player_entries accepts at i, or <<>>
LoadMarkerName(d, i, search_end) ==
    LET name_start == i + 2
        name_end == MarkerNameEnd(d, name_start, search_end)
        raw == Slice(d, name_start, name_end)
        test_name == Strip(raw)
    IN  IF /\ name_end > name_start
           /\ IsAscii(raw)
           /\ test_name # <<>> /\ IsPrintable(test_name) /\ Len(test_name) > 2
           /\ AllNameChars(test_name)
        THEN test_name ELSE <<>>
\* the name the direct method of _find_player_entries accepts at i, or <<>>
LoadDirectName(d, i, search_end) ==
    LET name_end == DirectNameEnd(d, i, search_end)
        valid_chars == name_end - i
        raw == Slice(d, i, name_end)
        test_name == Strip(raw)
    IN  IF /\ valid_chars >= MinRun
           /\ IsAscii(raw)
           /\ test_name # <<>> /\ IsPrintable(test_name) /\ Len(test_name) >= MinRun
           /\ AllNameChars(test_name)
        THEN test_name ELSE <<>>
\* one iteration of the for loop: the marker method, elif the direct method
LoadNameAt(d, i, search_end) ==
    IF IsMarker(d, i) THEN LoadMarkerName(d, i, search_end)
    ELSE IF i + 4 <= search_end THEN LoadDirectName(d, i, search_end)
    ELSE <<>>
\* the offset at which the for loop over range(search_start, search_end - 2)
\* breaks with a name, or -1 when it runs to its end
FirstLoadOffset(d, pattern_pos) ==
    LET offs == {i \in search_start(pattern_pos)..(pattern_pos - 3) :
                    LoadNameAt(d, i, pattern_pos) # <<>>}
    IN  IF offs = {} THEN -1 ELSE MinOf(offs)
\* str(n)
RECURSIVE Decimal(_)
Decimal(n) == IF n < 10 THEN <<48 + n>> ELSE Decimal(n \div 10) \o <<48 + (n % 10)>>
\* f"Player {player_num}"
DefaultName(player_num) == <<80, 108, 97, 121, 101, 114, 32>> \o Decimal(player_num)
\* the name given to an accepted anchor: that of the offset the loop broke
\* at, else the default
ResolveName(d, pattern_pos, n, first) ==
    IF first = -1 THEN DefaultName(n) ELSE LoadNameAt(d, first, pattern_pos)

\* ------------------------------------------------- player registry (load)
\* the index counted over every anchor visited, rejected ones too
player_num_visited(ps, log) == Len(log) + 1
\* player_num = len(self.players) + 1
player_num(ps, log) == Len(ps) + 1
Player(name, index, resources) == [name |-> name, index |-> index, resources |-> resources]
\* the while loop of _find_player_entries from pos on: ps is self.players,
\* log the "Found pattern" / "Found player" diagnostics printed so far
RECURSIVE FindPlayerEntries(_, _, _, _)
FindPlayerEntries(d, pos, ps, log) ==
    IF ~ScanContinues(d, pos) THEN [players |-> ps, log |-> log]
    ELSE LET pattern_pos == Find(d, pos)
         IN  IF pattern_pos = -1 THEN [players |-> ps, log |-> log]
             ELSE IF valid_sequence(d, pattern_pos)
             THEN LET n == player_num(ps, log)
                  IN  \* one evaluation of the backward search, used twice
                      LET first == CHOOSE i \in {FirstLoadOffset(d, pattern_pos)} : TRUE
                          p == Player(ResolveName(d, pattern_pos, n, first), n,
                                      reordered_values(values(d, pattern_pos)))
                      IN  FindPlayerEntries(d, pos_after(pattern_pos), Append(ps, p),
                              Append(log, [anchor |-> pattern_pos, accepted |-> TRUE,
                                           named |-> first # -1, at |-> Len(ps) + 1]))
             ELSE FindPlayerEntries(d, pos_after(pattern_pos), ps,
                          Append(log, [anchor |-> pattern_pos, accepted |-> FALSE,
                                       named |-> FALSE, at |-> 0]))

\* ------------------------------------------------------------ patch writer
\* the name the marker method of save tries at i, or <<>>: no length or
\* character-class check here
SaveMarkerName(d, i, search_end) ==
    LET name_start == i + 2
        name_end == MarkerNameEnd(d, name_start, search_end)
        raw == Slice(d, name_start, name_end)
        test_name == Strip(raw)
    IN  IF /\ name_end > name_start
           /\ IsAscii(raw)
           /\ test_name # <<>> /\ IsPrintable(test_name)
        THEN test_name ELSE <<>>
\* decode('ascii') raises in the marker method: except: continue
SaveMarkerRaises(d, i, search_end) ==
    LET name_start == i + 2
        name_end == MarkerNameEnd(d, name_start, search_end)
    IN  name_end > name_start /\ ~IsAscii(Slice(d, name_start, name_end))
\* the name the direct method of save tries at i, or <<>>
SaveDirectName(d, i, search_end) ==
    LET name_end == DirectNameEnd(d, i, search_end)
        valid_chars == name_end - i
        raw == Slice(d, i, name_end)
        test_name == Strip(raw)
    IN  IF /\ valid_chars >= MinRun
           /\ IsAscii(raw)
           /\ test_name # <<>> /\ IsPrintable(test_name)
        THEN test_name ELSE <<>>
\* the match without the already-patched test: player.name == test_name alone
MatchPlayerAgain(ps, test_name, updated_players) ==
    LET hits == {k \in 1..Len(ps) : ps[k].name = test_name}
    IN  IF test_name = <<>> \/ hits = {} THEN 0 ELSE MinOf(hits)
\* for player in self.players: if player.name == test_name and player.name not
\* in updated_players: the first such player's position in the list, else 0
MatchPlayer(ps, test_name, updated_players) ==
    LET hits == {k \in 1..Len(ps) : ps[k].name = test_name /\ ps[k].name \notin updated_players}
    IN  IF test_name = <<>> \/ hits = {} THEN 0 ELSE MinOf(hits)
\* one iteration of save's for loop: the player patched at offset i, else 0
SaveMatchAt(d, i, search_end, ps, updated_players) ==
    LET byMarker == IF IsMarker(d, i)
                    THEN MatchPlayer(ps, SaveMarkerName(d, i, search_end), updated_players)
                    ELSE 0
    IN  IF byMarker # 0 THEN byMarker
        ELSE IF IsMarker(d, i) /\ SaveMarkerRaises(d, i, search_end) THEN 0
        ELSE IF i + 4 <= search_end
        THEN MatchPlayer(ps, SaveDirectName(d, i, search_end), updated_players)
        ELSE 0
\* the player patched at this anchor: the first offset of the window with a match
SaveMatch(d, pattern_pos, ps, updated_players) ==
    LET offs == {i \in search_start(pattern_pos)..(pattern_pos - 3) :
                    SaveMatchAt(d, i, pattern_pos, ps, updated_players) # 0}
    IN  IF offs = {} THEN 0
        ELSE SaveMatchAt(d, MinOf(offs), pattern_pos, ps, updated_players)
\* the order in which save writes a player's resources: enumerate(player.resources)
WriteOrder(resources) == resources
\* for j, value in enumerate(...): data[rs + j*4 : rs + (j+1)*4] = struct.pack('<f', value)
RECURSIVE WriteResources(_, _, _, _)
WriteResources(buf, rs, vals, j) ==
    IF j >= Len(vals) THEN buf
    ELSE WriteResources(SliceAssign(buf, rs + j * 4, rs + (j + 1) * 4, Pack(vals[j + 1])),
                        rs, vals, j + 1)
\* the while loop of save from pos on: d is self.data (searched, never
\* written), buf the bytearray being patched, log one entry per anchor visited
RECURSIVE PatchScan(_, _, _, _, _, _)
PatchScan(d, pos, ps, buf, updated_players, log) ==
    IF ~ScanContinues(d, pos) THEN [data |-> buf, updated |-> updated_players, log |-> log]
    ELSE LET pattern_pos == Find(d, pos)
         IN  IF pattern_pos = -1
             THEN [data |-> buf, updated |-> updated_players, log |-> log]
             ELSE LET k == SaveMatch(d, pattern_pos, ps, updated_players)
                  IN  IF k = 0
                      THEN PatchScan(d, pos_after(pattern_pos), ps, buf, updated_players,
                                     Append(log, [anchor |-> pattern_pos, player |-> 0]))
                      ELSE PatchScan(d, pos_after(pattern_pos), ps,
                                     WriteResources(buf, resource_start(pattern_pos),
                                                    WriteOrder(ps[k].resources), 0),
                                     updated_players \cup {ps[k].name},
                                     Append(log, [anchor |-> pattern_pos, player |-> k]))
\* if len(updated_players) != len(self.players): the warning is printed
Warned(ps, updated_players) == Cardinality(updated_players) # Len(ps)
\* missing = set(p.name for p in self.players) - updated_players
Missing(ps, updated_players) == {ps[k].name : k \in 1..Len(ps)} \ updated_players

\* ---------------------------------------------------- container framing
\* a file is its framing and the buffer the stream inflates to; "junk" is a
\* file no configuration inflates, "absent" is no file
Absent == [framing |-> "absent", payload |-> <<>>]
Garbage == [framing |-> "junk", payload |-> <<>>]
\* for wbits in [zlib.MAX_WBITS, 15, -15]
wbits_order == <<MAX_WBITS, 15, -15>>
\* zlib.decompress(compressed, wbits) does not raise zlib.error
Inflates(file, wbits) ==
    IF wbits > 0 THEN file.framing = "zlib" ELSE file.framing = "raw"
\* the configurations that inflate the file, as positions of wbits_order
Succeeding(file) == {k \in 1..Len(wbits_order) : Inflates(file, wbits_order[k])}
\* the configuration read recorded, reused by save
SaveWbitsRecorded(recorded) == recorded
\* the wbits save compresses with, given the wbits read recorded
SaveWbits(recorded) == 0 - 15
\* zlib.compressobj(level=9, method=DEFLATED, wbits=..., memLevel=9).compress + flush
Deflate(d, wbits) == [framing |-> IF wbits > 0 THEN "zlib" ELSE "raw", payload |-> d]

\* ------------------------------------------------------------------ inputs
\* little-endian singles
f0 == <<0, 0, 0, 0>>
f1 == <<0, 0, 128, 63>>
f2 == <<0, 0, 0, 64>>
f3 == <<0, 0, 64, 64>>
f4 == <<0, 0, 128, 64>>
f10 == <<0, 0, 32, 65>>
f20 == <<0, 0, 160, 65>>
f30 == <<0, 0, 240, 65>>
f40 == <<0, 0, 32, 66>>
f500 == <<0, 0, 250, 67>>
\* 100000.0 and the next single above it, 100000.0078125
f100000 == <<0, 80, 195, 71>>
fOver == <<1, 80, 195, 71>>
\* -0.0001, -0.0 and a NaN
fNeg == <<23, 183, 209, 184>>
fNegZero == <<0, 0, 0, 128>>
fNaN == <<0, 0, 192, 127>>
Block(a, b, c, d) == a \o b \o c \o d
Fill(n, byte) == [k \in 1..n |-> byte]
Anna == <<65, 110, 110, 97>>
Bobby == <<66, 111, 98, 98, 121>>
Bob == <<66, 111, 98>>
\* one record named by a bare run
BufOne == Anna \o <<0>> \o player_pattern \o Block(f10, f20, f30, f40) \o Fill(10, 1)
\* one record named by a 09 00 marker and a three-letter name
BufMarker == <<9, 0>> \o Bob \o <<0>> \o player_pattern \o Block(f1, f2, f3, f4) \o Fill(10, 1)
\* one record with no name in its window, values on both range boundaries
BufDefault == <<1, 1>> \o player_pattern \o Block(f0, f100000, fNegZero, f40) \o Fill(12, 1)
\* two records less than 512 bytes apart: both resolve the first name
BufTwoNear ==
    Anna \o <<0>> \o player_pattern \o Block(f10, f20, f30, f40)
    \o Bobby \o <<0>> \o player_pattern \o Block(f1, f2, f3, f4) \o Fill(12, 1)
\* a rejected record (one value just above the range) before an accepted one
BufRejected ==
    Anna \o <<0>> \o player_pattern \o Block(f10, fOver, f30, f40)
    \o <<1>> \o player_pattern \o Block(f1, f2, f3, f4) \o Fill(12, 1)
\* a record with the default name, then a named one
BufDefaultThenNamed ==
    <<1, 1>> \o player_pattern \o Block(f10, f20, f30, f40)
    \o Bobby \o <<0>> \o player_pattern \o Block(f1, f2, f3, f4) \o Fill(12, 1)
\* two records more than 512 bytes apart: two different names
BufTwoFar ==
    Anna \o <<0>> \o player_pattern \o Block(f10, f20, f30, f40) \o Fill(NameWindow, 1)
    \o Bobby \o <<0>> \o player_pattern \o Block(f1, f2, f3, f4) \o Fill(12, 1)
\* three records: the first two resolve "Anna"; the window of the third, 484
\* bytes further on, starts at "Bobby" and no longer holds "Anna"
BufThree ==
    Anna \o <<0>> \o player_pattern \o Block(f10, f20, f30, f40)
    \o Bobby \o <<0>> \o player_pattern \o Block(f1, f2, f3, f4) \o Fill(484, 1)
    \o player_pattern \o Block(f3, f4, f3, f4) \o Fill(12, 1)
\* two signatures back to back: the block of the first starts with the second
BufAdjacent ==
    <<1>> \o player_pattern \o player_pattern \o Block(f1, f2, f3, f4) \o Fill(20, 1)
\* a record with the default name, the text "Player 1", and a signature eight
\* bytes before the end of the buffer
BufLate ==
    <<1, 1>> \o player_pattern \o Block(f10, f20, f30, f40)
    \o DefaultName(1) \o <<0>> \o player_pattern \o f1 \o f2
\* records rejected for a negative value and for a NaN, then an accepted one
BufNegNaN ==
    <<1>> \o player_pattern \o Block(f10, f20, fNeg, f40)
    \o <<1>> \o player_pattern \o Block(fNaN, f20, f30, f40)
    \o <<1>> \o player_pattern \o Block(f1, f2, f3, f4) \o Fill(12, 1)
\* no signature at all; a signature in a buffer of 32 bytes; the empty buffer
BufNoSignature == Fill(40, 1)
BufShort == player_pattern \o Block(f10, f20, f30, f40) \o Fill(10, 1)
BufEmpty == <<>>
Buffers ==
    {BufOne, BufMarker, BufDefault, BufTwoNear, BufRejected, BufDefaultThenNamed,
     BufTwoFar, BufThree, BufAdjacent, BufLate, BufNegNaN, BufNoSignature, BufShort, BufEmpty}
\* the files a session may find on disk: every buffer zlib-wrapped (what
\* configurations 1 and 2 inflate), some as raw deflate, and an undecodable file
InitFiles ==
    {[framing |-> "zlib", payload |-> b] : b \in Buffers}
    \cup {[framing |-> "raw", payload |-> b] : b \in {BufOne, BufTwoNear, BufEmpty}}
    \cup {Garbage}
\* what another program may leave in the save file between two operations
ExternalFiles == {Garbage}
\* the resource lists the edit dialog may return
EditChoices == {<<Unpack(f500), Unpack(f3), Unpack(f500), Unpack(f4)>>}

\* ------------------------------------------------------------------- state
VARIABLES
    disk,       \* the file system: path -> file
    filename,   \* self.filename
    data,       \* self.data: NoData (None) or the decoded buffer
    players,    \* self.players
    wbits,      \* self.wbits: 0 (None) or the configuration read recorded
    reads,      \* read() calls made on this SaveGame object
    steps,      \* operations performed
    last,       \* the last operation: what it raised, printed and wrote
    backedUp,   \* path -> the file the path held before its first successful save
    trip,       \* progress of a load / save / fresh load round trip
    scanning    \* one scan loop taken an iteration at a time: d, pos, visited, done
vars == <<disk, filename, data, players, wbits, reads, steps, last, backedUp, trip,
          scanning>>

Paths == {"a", "b"}
BackupPath(p) == IF p = "a" THEN "a.backup" ELSE "b.backup"
AllPaths == Paths \cup {BackupPath(p) : p \in Paths}
NoData == <<-1>>
\* what an operation reports: err is the exception raised ("none" if none),
\* scan the diagnostics of _find_player_entries, patches those of save's loop
Report(op, err, path) ==
    [op |-> op, err |-> err, path |-> path, scan |-> <<>>, scanned |-> FALSE,
     patches |-> <<>>, warned |-> FALSE, missing |-> {}, before |-> <<>>,
     old |-> <<>>, backup_created |-> FALSE]
NoTrip == [phase |-> 0, registry |-> <<>>]
\* no loop under way
NoScan == [d |-> <<>>, pos |-> 0, visited |-> <<>>, done |-> TRUE]

Init ==
    /\ \E f \in InitFiles, g \in {Absent, [framing |-> "zlib", payload |-> BufMarker]} :
          disk = [p \in AllPaths |-> IF p = "a" THEN f ELSE IF p = "b" THEN g ELSE Absent]
    /\ filename = "a"
    /\ data = NoData
    /\ players = <<>>
    /\ wbits = 0
    /\ reads = 0
    /\ steps = 0
    /\ last = Report("init", "none", "a")
    /\ backedUp = [p \in Paths |-> Absent]
    /\ trip = NoTrip
    /\ scanning = NoScan

\* SaveGame(path): __init__
New(path) ==
    /\ steps < MaxSteps
    /\ filename' = path
    /\ data' = NoData
    /\ players' = <<>>
    /\ wbits' = 0
    /\ reads' = 0
    /\ steps' = steps + 1
    /\ last' = Report("new", "none", path)
    /\ trip' = IF trip.phase = 2 /\ path = filename
               THEN [trip EXCEPT !.phase = 3] ELSE NoTrip
    /\ UNCHANGED <<scanning, disk, backedUp>>

\* the for loop of read: self.data and self.wbits after it
Decompressed(compressed, old_data, old_wbits) ==
    IF Succeeding(compressed) = {} THEN [data |-> old_data, wbits |-> old_wbits]
    ELSE [data |-> compressed.payload, wbits |-> wbits_order[MinOf(Succeeding(compressed))]]
\* if not self.data: None or the empty buffer
NotData(d) == d = NoData \/ d = <<>>

\* read(): open() raises when the file is absent
ReadNoFile ==
    /\ steps < MaxSteps /\ reads < MaxReads
    /\ disk[filename] = Absent
    /\ reads' = reads + 1
    /\ steps' = steps + 1
    /\ last' = Report("read", "FileNotFoundError", filename)
    /\ trip' = NoTrip
    /\ UNCHANGED <<scanning, disk, filename, data, players, wbits, backedUp>>

\* read(): raises ValueError("Failed to decompress save file")
ReadFails ==
    /\ steps < MaxSteps /\ reads < MaxReads
    /\ disk[filename] # Absent
    /\ LET dec == Decompressed(disk[filename], data, wbits)
       IN  /\ NotData(dec.data)
           /\ data' = dec.data
           /\ wbits' = dec.wbits
    /\ reads' = reads + 1
    /\ steps' = steps + 1
    /\ last' = Report("read", "ValueError", filename)
    /\ trip' = NoTrip
    /\ UNCHANGED <<scanning, disk, filename, players, backedUp>>

\* read(): returns after _find_player_entries
ReadOk ==
    /\ steps < MaxSteps /\ reads < MaxReads
    /\ disk[filename] # Absent
    /\ LET dec == Decompressed(disk[filename], data, wbits)
       IN  /\ ~NotData(dec.data)
           /\ \E found \in {FindPlayerEntries(dec.data, 0, players, <<>>)} :
                /\ data' = dec.data
                /\ wbits' = dec.wbits
                /\ players' = found.players
                /\ last' = [Report("read", "none", filename) EXCEPT
                               !.scan = found.log, !.scanned = TRUE, !.before = players]
                /\ trip' = IF trip.phase = 3
                           THEN [trip EXCEPT !.phase = 4]
                           ELSE IF reads = 0
                           THEN [phase |-> 1, registry |-> found.players]
                           ELSE NoTrip
    /\ reads' = reads + 1
    /\ steps' = steps + 1
    /\ UNCHANGED <<scanning, disk, filename, backedUp>>

\* the edit dialog: player.resources = dialog.result
Edit(k, resources) ==
    /\ steps < MaxSteps
    /\ k \in 1..Len(players)
    /\ players' = [players EXCEPT ![k].resources = resources]
    /\ steps' = steps + 1
    /\ last' = Report("edit", "none", filename)
    /\ trip' = NoTrip
    /\ UNCHANGED <<scanning, disk, filename, data, wbits, reads, backedUp>>

\* the file another program leaves at a path between two operations
ExternalWrite(path, file) ==
    /\ steps < MaxSteps
    /\ disk[path] # file
    /\ disk' = [disk EXCEPT ![path] = file]
    /\ steps' = steps + 1
    /\ last' = Report("extern", "none", path)
    /\ trip' = NoTrip
    /\ UNCHANGED <<scanning, filename, data, players, wbits, reads, backedUp>>

\* save(): bytearray(self.data) raises TypeError when self.data is None
SaveNoData ==
    /\ steps < MaxSteps
    /\ data = NoData
    /\ steps' = steps + 1
    /\ last' = Report("save", "TypeError", filename)
    /\ trip' = NoTrip
    /\ UNCHANGED <<scanning, disk, filename, data, players, wbits, reads, backedUp>>

\* save(): the buffer is patched, then copy2 (or open) raises: no file at path
SaveNoFile(path) ==
    /\ steps < MaxSteps
    /\ data # NoData
    /\ disk[path] = Absent
    /\ \E patched \in {PatchScan(data, 0, players, data, {}, <<>>)} :
          /\ data' = patched.data
          /\ last' = [Report("save", "FileNotFoundError", path) EXCEPT
                         !.patches = patched.log,
                         !.warned = Warned(players, patched.updated),
                         !.missing = Missing(players, patched.updated),
                         !.old = data]
    /\ steps' = steps + 1
    /\ trip' = NoTrip
    /\ UNCHANGED <<scanning, disk, filename, players, wbits, reads, backedUp>>

\* the backup copied on every save, existing or not
BackupEverySave(old_backup, original) == original
\* if not os.path.exists(backup_path): shutil.copy2(filename, backup_path)
BackupAfterSave(old_backup, original) ==
    IF old_backup = Absent THEN original ELSE old_backup

\* save(): patch, warn, back up, compress, write
SaveOk(path) ==
    /\ steps < MaxSteps
    /\ data # NoData
    /\ disk[path] # Absent
    /\ \E patched \in {PatchScan(data, 0, players, data, {}, <<>>)} :
          /\ data' = patched.data
          /\ disk' = [disk EXCEPT
                         ![BackupPath(path)] = BackupAfterSave(@, disk[path]),
                         ![path] = Deflate(patched.data, SaveWbits(wbits))]
          /\ last' = [Report("save", "none", path) EXCEPT
                         !.patches = patched.log,
                         !.warned = Warned(players, patched.updated),
                         !.missing = Missing(players, patched.updated),
                         !.old = data,
                         !.backup_created = (disk[BackupPath(path)] = Absent)]
    /\ backedUp' = [backedUp EXCEPT ![path] = IF @ = Absent THEN disk[path] ELSE @]
    /\ steps' = steps + 1
    /\ trip' = IF path = filename /\ trip.phase \in {1, 4}
               THEN [phase |-> 2, registry |-> players] ELSE NoTrip
    /\ UNCHANGED <<scanning, filename, players, wbits, reads>>

Next ==
    \/ \E path \in Paths : New(path)
    \/ ReadNoFile
    \/ ReadFails
    \/ ReadOk
    \/ \E k \in 1..Len(players), r \in EditChoices : Edit(k, r)
    \/ \E path \in Paths, file \in ExternalFiles : ExternalWrite(path, file)
    \/ SaveNoData
    \/ \E path \in Paths : SaveNoFile(path)
    \/ \E path \in Paths : SaveOk(path)

Spec == Init /\ [][Next]_vars

\* ----------------------------------------------- the scan loop, step by step
\* the buffers a loop is started on: the input buffers and every prefix of two
\* of them, so that the end of the buffer falls at every place of a record
ScanBuffers ==
    Buffers \cup {SubSeq(BufNegNaN, 1, n) : n \in 0..Len(BufNegNaN)}
            \cup {SubSeq(BufAdjacent, 1, n) : n \in 0..Len(BufAdjacent)}
\* pos = 0 before the while loop of _find_player_entries or of save
ScanInit ==
    /\ \E d \in ScanBuffers : scanning = [d |-> d, pos |-> 0, visited |-> <<>>, done |-> FALSE]
    /\ disk = [p \in AllPaths |-> Absent]
    /\ filename = "a"
    /\ data = NoData
    /\ players = <<>>
    /\ wbits = 0
    /\ reads = 0
    /\ steps = 0
    /\ last = Report("init", "none", "a")
    /\ backedUp = [p \in Paths |-> Absent]
    /\ trip = NoTrip
\* the loop condition is false: the loop is left
ScanExit ==
    /\ ~scanning.done
    /\ ~ScanContinues(scanning.d, scanning.pos)
    /\ scanning' = [scanning EXCEPT !.done = TRUE]
    /\ UNCHANGED <<disk, filename, data, players, wbits, reads, steps, last, backedUp, trip>>
\* if pattern_pos == -1: break
ScanBreak ==
    /\ ~scanning.done
    /\ ScanContinues(scanning.d, scanning.pos)
    /\ Find(scanning.d, scanning.pos) = -1
    /\ scanning' = [scanning EXCEPT !.done = TRUE]
    /\ UNCHANGED <<disk, filename, data, players, wbits, reads, steps, last, backedUp, trip>>
\* one iteration: the anchor is processed, then pos = pattern_pos + 1
ScanIteration ==
    /\ ~scanning.done
    /\ ScanContinues(scanning.d, scanning.pos)
    /\ \E pattern_pos \in {Find(scanning.d, scanning.pos)} :
          /\ pattern_pos # -1
          /\ scanning' = [scanning EXCEPT !.pos = pos_after(pattern_pos),
                                          !.visited = Append(@, pattern_pos)]
    /\ UNCHANGED <<disk, filename, data, players, wbits, reads, steps, last, backedUp, trip>>
ScanNext == ScanExit \/ ScanBreak \/ ScanIteration
\* a loop that can take a step takes it
ScanSpec == ScanInit /\ [][ScanNext]_vars /\ WF_vars(ScanNext)

\* ------------------------------------------------------------------ claims
\* the most recent operation was a read() that returned normally
Loaded == last.op = "read" /\ last.err = "none"
\* the most recent operation was a save() that returned normally
Saved == last.op = "save" /\ last.err = "none"
\* the anchors the last load accepted, as positions of its diagnostics
AcceptedEntries == {n \in 1..Len(last.scan) : last.scan[n].accepted}
\* the players the last save patched, as positions of the registry
PatchedPlayers == {last.patches[n].player : n \in 1..Len(last.patches)} \ {0}
\* the 16 bytes at anchor+6 .. anchor+22 of the session's buffer
BlockAt(a) == Slice(data, a + 6, a + 22)
\* a single in [0.0, 100000.0], told by its bit pattern: +0.0 up to
\* 0x47C35000 in the order of unsigned integers, or -0.0
BitsInRange(b) ==
    \/ b = <<0, 0, 0, 128>>
    \/ b[4] < 71
    \/ b[4] = 71 /\ b[3] < 195
    \/ b[4] = 71 /\ b[3] = 195 /\ b[2] < 80
    \/ b[4] = 71 /\ b[3] = 195 /\ b[2] = 80 /\ b[1] = 0

\* C1: a load, a save with zero edits and a fresh load of the same file give a
\* registry of the same length with, position by position, the names, indices
\* and resources of the first load (for a first registry of at least one player).
C1_RoundTripIdentity ==
    (trip.phase = 4 /\ Len(trip.registry) >= 1) =>
        /\ Len(players) = Len(trip.registry)
        /\ \A k \in 1..Len(players) :
              /\ k <= Len(trip.registry)
              /\ players[k].name = trip.registry[k].name
              /\ players[k].index = trip.registry[k].index
              /\ players[k].resources = trip.registry[k].resources

\* C2: after a save, the block at anchor+6 of every anchor matched to a player
\* with resources [r0, r1, r2, r3] holds r1, r0, r2, r3 in that order.
C2_WritesRawOrder ==
    Saved =>
        \A n \in 1..Len(last.patches) :
            last.patches[n].player # 0 =>
                LET r == players[last.patches[n].player].resources
                IN  BlockAt(last.patches[n].anchor)
                        = Pack(r[2]) \o Pack(r[1]) \o Pack(r[3]) \o Pack(r[4])

\* C3: a load accepts an anchor exactly when the 16 bytes at anchor+6 are all
\* in the buffer and each of the four values is in [0, 100000]; a rejected
\* anchor appends no player; an accepted raw block [v0, v1, v2, v3] is stored
\* as [v1, v0, v2, v3].
C3_AcceptIffAllFourInRange ==
    Loaded =>
        /\ Len(players) = Len(last.before) + Cardinality(AcceptedEntries)
        /\ \A n \in 1..Len(last.scan) :
              LET e == last.scan[n]
                  raw == [i \in 0..3 |-> Slice(data, e.anchor + 6 + 4 * i, e.anchor + 10 + 4 * i)]
              IN  /\ e.accepted <=>
                        /\ e.anchor + 22 <= Len(data)
                        /\ \A i \in 0..3 : BitsInRange(raw[i])
                  /\ e.accepted =>
                        /\ e.at \in (Len(last.before) + 1)..Len(players)
                        /\ [j \in 1..4 |-> Pack(players[e.at].resources[j])]
                               = <<raw[1], raw[0], raw[2], raw[3]>>
\* a load that rejected one anchor and accepted another
C3_Witness ==
    /\ Loaded
    /\ \E n, m \in 1..Len(last.scan) : last.scan[n].accepted /\ ~last.scan[m].accepted

\* C4: after a save, the name of every registry player that was not patched
\* is in the warning set.
C4_UnpatchedReported ==
    Saved =>
        \A k \in 1..Len(players) :
            k \notin PatchedPlayers => players[k].name \in last.missing

\* C5: once a path has been saved to, its backup exists and holds the file the
\* path held before the first save, whatever was saved since.
C5_BackupOnceBeforeFirstSave ==
    \A p \in Paths :
        backedUp[p] # Absent =>
            /\ disk[BackupPath(p)] # Absent
            /\ disk[BackupPath(p)] = backedUp[p]
\* a save that found the backup in place and wrote a file different from it
C5_Witness ==
    /\ Saved
    /\ ~last.backup_created
    /\ disk[last.path] # disk[BackupPath(last.path)]

\* C6: a load of a file that no configuration inflates raises the decode error,
\* runs no scan and adds no players to the session.
C6_UndecodableLoadFails ==
    (last.op = "read" /\ disk[filename] # Absent /\ Succeeding(disk[filename]) = {}) =>
        /\ last.err = "ValueError"
        /\ ~last.scanned
        /\ last.scan = <<>>

\* C7: a load of a file that some configuration inflates does not fail.
C7_DecodableLoadSucceeds ==
    (last.op = "read" /\ disk[filename] # Absent /\ Succeeding(disk[filename]) # {}) =>
        last.err = "none"

\* C8: after a load, the registry holds exactly the players that load
\* discovered, in discovery order.
C8_RegistryIsLastLoad ==
    Loaded =>
        /\ Len(players) = Cardinality(AcceptedEntries)
        /\ \A n \in AcceptedEntries :
              last.scan[n].at = Cardinality({m \in AcceptedEntries : m <= n})

\* C9: the registry's indices are 1, 2, ..., N in order; each accepted anchor
\* gets the next index whatever was rejected before it, and the name
\* "Player {index}" when no candidate of its window was accepted.
C9_IndicesAndDefaultName ==
    /\ \A k \in 1..Len(players) : players[k].index = k
    /\ Loaded =>
          \A n \in AcceptedEntries :
              LET e == last.scan[n]
              IN  /\ e.at = Len(last.before) + Cardinality({m \in AcceptedEntries : m <= n})
                  /\ players[e.at].index = e.at
                  /\ ~e.named =>
                        players[e.at].name
                            = <<80, 108, 97, 121, 101, 114, 32>> \o Decimal(e.at)
\* a load that rejected an anchor and then accepted one under the default name
C9_Witness ==
    /\ Loaded
    /\ \E n, m \in 1..Len(last.scan) :
          /\ m < n
          /\ ~last.scan[m].accepted
          /\ last.scan[n].accepted /\ ~last.scan[n].named

LoadResolved(d, pattern_pos) ==
    LET first == CHOOSE i \in {FirstLoadOffset(d, pattern_pos)} : TRUE
    IN  IF first = -1 THEN <<>> ELSE LoadNameAt(d, first, pattern_pos)

\* C11: a save overwrites the block of an anchor only with the resources of a
\* player whose name is the name the load-time resolver returns for that
\* anchor on the same buffer (the first candidate it accepts, none tried after).
C11_PatchedByLoadName ==
    Saved =>
        \A n \in 1..Len(last.patches) :
            last.patches[n].player # 0 =>
                players[last.patches[n].player].name
                    = LoadResolved(last.old, last.patches[n].anchor)

C13_SavePreservesLength ==
    Saved => Len(data) = Len(last.old)

\* C14: every anchor a load validates, and every anchor a save tries to
\* patch, has at least 32 bytes of the scanned buffer from its offset on.
C14_AnchorsHave32BytesLeft ==
    /\ Loaded => \A n \in 1..Len(last.scan) : last.scan[n].anchor + ScanTail <= Len(data)
    /\ Saved => \A n \in 1..Len(last.patches) :
                    last.patches[n].anchor + ScanTail <= Len(last.old)

\* the offsets of the resource blocks of the anchors the last save patched
PatchedOffsets ==
    UNION {(last.patches[n].anchor + 6)..(last.patches[n].anchor + 21) :
              n \in {m \in 1..Len(last.patches) : last.patches[m].player # 0}}

\* C15: a save changes the session's buffer only inside the blocks
\* [a+6, a+22) of the anchors a it patched: every other offset of the buffer
\* before or after the save holds the same byte before and after.
C15_SaveWritesOnlyBlocks ==
    Saved =>
        \A o \in (0..(Max2(Len(data), Len(last.old)) - 1)) \ PatchedOffsets :
            /\ o < Len(data) /\ o < Len(last.old)
            /\ At(data, o) = At(last.old, o)
\* a save that changed the buffer, with an anchor it patched and an anchor it
\* did not patch
C15_Witness ==
    /\ Saved
    /\ data # last.old
    /\ \E n, m \in 1..Len(last.patches) :
          last.patches[n].player # 0 /\ last.patches[m].player = 0

\* the offsets of buffer d at which the signature occurs
Occurrences(d) == {o \in 0..(Len(d) - PatternLen) : MatchAt(d, o)}
\* the occurrences a left-to-right scan of d reaches: the search that finds
\* one starts at 0 or just past the occurrence before it, and starts only at
\* a position with more than 32 bytes after it
Reached(d) ==
    {o \in Occurrences(d) :
        /\ 0 < Len(d) - ScanTail
        /\ \A q \in Occurrences(d) : q < o => q + 1 < Len(d) - ScanTail}
\* the offsets listed by a scan's diagnostics, in the order they were visited
Anchors(log) == [n \in 1..Len(log) |-> log[n].anchor]
\* the scans of load and of save, run whole, visit what the loop visited
SameAsWholeScans ==
    /\ Anchors(FindPlayerEntries(scanning.d, 0, <<>>, <<>>).log) = scanning.visited
    /\ Anchors(PatchScan(scanning.d, 0, <<>>, scanning.d, {}, <<>>).log) = scanning.visited
\* C16: on every buffer the scan loop of load and of save comes to its end;
\* each iteration moves the search position up, and the loop ends having
\* visited the signature occurrences it reaches in strictly increasing offset
\* order, each once, adjacent ones included.
C16_ScanTerminatesInOrder ==
    /\ <>scanning.done
    /\ [][scanning.pos' > scanning.pos \/ scanning'.done]_scanning
    /\ [](scanning.done =>
            /\ \A n, m \in 1..Len(scanning.visited) :
                  n < m => scanning.visited[n] < scanning.visited[m]
            /\ {scanning.visited[n] : n \in 1..Len(scanning.visited)} = Reached(scanning.d)
            /\ SameAsWholeScans)
\* a loop that ended after visiting two signature occurrences six bytes apart
C16_Witness ==
    /\ scanning.done
    /\ \E n \in 1..(Len(scanning.visited) - 1) :
          scanning.visited[n + 1] = scanning.visited[n] + PatternLen

====
